---- MODULE Spec2Model ----
(***************************************************************************)
(* A model of bin/lh-audit.js: the time-window gated run loop (doScript,   *)
(* pauseScript), the batch of audits of one URL (multipleTimes,            *)
(* runLighthouse) and the records handed to the csv writer (addToLogs,     *)
(* logError).                                                              *)
(*                                                                         *)
(* JavaScript runs one handler at a time, to its next await.  Each action  *)
(* below is one such handler: the program start, the continuation of an    *)
(* await when its promise settles, a tick of the setInterval timer, the    *)
(* settling of a csvWriter.writeRecords promise.  The wall clock, the      *)
(* outcome of an audit, of assetSaver.saveAssets and of a write are the    *)
(* environment's choice.  chromeLauncher.launch and chrome.kill are taken  *)
(* to resolve.                                                             *)
(***************************************************************************)
EXTENDS Integers, Sequences, FiniteSets, Bags, TLC

\* ---------------------------------------------------------------- bounds

\* the longest urlsToCheck list explored
MaxUrls == 2
\* the most csvWriter.writeRecords promises unsettled at one time
MaxPending == 2
\* the doScript calls up to which a resumed run may find the window closed
MaxCalls == 2

\* ------------------------------------------------------ program constants

\* for (const j of new Array(3))
Attempts == 3
\* hour >= 9 && hour <= 18
StartHour == 9
EndHour == 18
\* weekday !== 0 && weekday !== 6
WeekendA == 0
WeekendB == 6

PARTIAL == "PARTIAL"
GMEAN == "GMEAN"
ErrorType == "Error: site not loaded"

\* the value runLighthouse returns for a failed audit
Null == <<>>

\* the list the URLs are taken from; urlsToCheck is a prefix of it
UrlPool == <<"a.example", "b.example", "c.example", "d.example">>

\* the wall-clock readings (hour of day, weekday) in Australia/Sydney the
\* clock moves between: a Friday at 18h, the last hour of the interval, and
\* the same Friday an hour later; TimeSpec goes through all the hours of
\* all the days
ClockSamples == {<<18, 5>>, <<19, 5>>}

VARIABLES
    urlsToCheck,    \* require("./urls-to-check")
    storeLogs,      \* cmd.storeLogs
    rejectionMode,  \* what the runtime does with an unhandled rejection
    hour, weekday,  \* the wall clock in the fixed zone
    calls,          \* number of doScript invocations so far
    flows,          \* the doScript invocations suspended at an await
    intervals,      \* number of setInterval calls so far
    timers,         \* the interval timers that are set and not cleared
    finished,       \* a doScript loop ran past the last URL
    browsers,       \* chrome instances launched and not killed
    started,        \* the audit attempts started, in order: <<i, j>>
    outcomes,       \* per URL, how many of its audits resolved and rejected
    processed,      \* number of multipleTimes calls that have returned
    sink,           \* the bag of records handed to csvWriter.writeRecords
    pending,        \* the writes not settled yet, with their place in the
                    \* order of the writeRecords calls
    uncaught        \* the error the process was terminated by, or None

vars == <<urlsToCheck, storeLogs, rejectionMode, hour, weekday, calls, flows,
          intervals, timers, finished, browsers, started, outcomes,
          processed, sink, pending, uncaught>>

envVars == <<urlsToCheck, storeLogs, rejectionMode>>
clockVars == <<hour, weekday>>

\* ------------------------------------------------------------- helpers

Prefix(s, n) == [k \in 1..n |-> s[k]]

\* urlsToCheck[i], i counted from 0 as in the source
UrlAt(i) == urlsToCheck[i + 1]

\* a window that leaves out its first and its last hour
checkTimeExclusive(h, d) ==
    h > StartHour /\ h < EndHour /\ d # WeekendA /\ d # WeekendB

\* checkTime(), on the clock reading (h, d)
checkTime(h, d) ==
    h >= StartHour /\ h <= EndHour /\ d # WeekendA /\ d # WeekendB

\* the clock reading an hour after (h, d)
HourLater(h, d) == <<(h + 1) % 24, IF h = 23 THEN (d + 1) % 7 ELSE d>>

\* what the clock may read at the second of two checkTime() calls of one
\* turn, the first of which read (h, d): the same, or the hour has turned
SecondReading(h, d) == {<<h, d>>, HourLater(h, d)}

\* a tick that resumes and leaves its timer set
clearIntervalNoop(ts, t) == ts

\* clearInterval(interval)
clearInterval(ts, t) == ts \ {t}

\* the record addToLogs hands to the writer; data stands for the formatted
\* metric columns: the object r they are formatted from
addToLogsRecord(data, url, type) ==
    [site |-> url, type |-> type, data |-> data]

\* the record logError hands to the writer
logErrorRecord(url) ==
    [site |-> url, type |-> ErrorType, data |-> <<>>]

\* the values an audit reports for a metric, in whole units
SampleValues == {1, 16}

\* the results lighthouse may resolve with: the performance score and the
\* numeric value of the total-byte-weight audit, two of the twelve values
\* condenseReport reads
LighthouseResults ==
    [performance : SampleValues, totalByteWeight : SampleValues]

\* the results of the audits of URL i when every audit of a URL reports the
\* same
SteadyResult(i) ==
    [performance |-> 16, totalByteWeight |-> IF i % 2 = 0 THEN 1 ELSE 16]

\* condenseReport(results)
condenseReport(results) ==
    [performanceScore |-> results.performance,
     totalByteWeight |-> results.totalByteWeight]

RECURSIVE Product(_)
Product(values) ==
    IF values = <<>> THEN 1 ELSE Head(values) * Product(Tail(values))

\* computeGmean(values) of the compute-gmean package: the n-th root of the
\* product of the n values, in whole units
computeGmean(values) ==
    LET n == Len(values)
        P == Product(values)
    IN CHOOSE g \in 0..P : g ^ n <= P /\ P < (g + 1) ^ n

\* an aggregate every field of which is the mean of the first field
gmeanOfFirstKey(multipleResults) ==
    [metric \in DOMAIN multipleResults[1] |->
        computeGmean([k \in 1..Len(multipleResults) |->
                          multipleResults[k].performanceScore])]

\* an aggregate that counts a failed attempt as a sample of value 1
gmeanOfPadded(multipleResults) ==
    [metric \in DOMAIN multipleResults[1] |->
        computeGmean([k \in 1..Attempts |->
            IF k <= Len(multipleResults) THEN multipleResults[k][metric]
            ELSE 1])]

\* the gmean object of multipleTimes: for each key of multipleResults[0],
\* computeGmean of the values of that key
gmeanOf(multipleResults) ==
    [metric \in DOMAIN multipleResults[1] |->
        computeGmean([k \in 1..Len(multipleResults) |->
                          multipleResults[k][metric]])]

\* csvWriter.writeRecords([record]): the record joins those handed to the
\* writer and its write is unsettled
writeRecords(record) ==
    /\ sink' = sink (+) SetToBag({record})
    /\ pending' = pending \cup
            {[seq |-> BagCardinality(sink) + 1, record |-> record]}

\* outcomes, with one more audit of URL i resolved (ok) or rejected
settled(i, ok) ==
    [outcomes EXCEPT ![i + 1] =
        IF ok THEN [@ EXCEPT !.resolved = @ + 1]
              ELSE [@ EXCEPT !.rejected = @ + 1]]

\* a batch that keeps none of its results
pushResultNever(multipleResults, result) == multipleResults

\* if (result) multipleResults.push(result)
pushResult(multipleResults, result) ==
    IF result # Null THEN Append(multipleResults, result) ELSE multipleResults

\* the reasons a promise of the program is rejected with
ReferenceError == "ReferenceError: r is not defined"
WriteError == "writeRecords rejected"
SaveError == "saveAssets rejected"

None == "none"

\* the process is running
alive == uncaught = None

\* a promise rejected with no handler: the runtime prints a warning and goes
\* on, or raises the reason as an uncaught exception and ends the process
unhandledRejection(reason) ==
    uncaught' = IF rejectionMode = "throw" THEN reason ELSE uncaught

CanWrite == Cardinality(pending) < MaxPending

\* the flow of doScript invocation id at the first await of runLighthouse,
\* for attempt j of URL i
launching(id, i, j, multipleResults) ==
    [id |-> id, i |-> i, j |-> j, pc |-> "launch", result |-> Null,
     multipleResults |-> multipleResults]

\* a pause that hands on the index after the one it stopped at
pauseScriptSkip(ts, pausePoint) ==
    ts \cup {[id |-> intervals + 1, pausePoint |-> pausePoint + 1]}

\* pauseScript(pausePoint): one setInterval
pauseScript(ts, pausePoint) ==
    ts \cup {[id |-> intervals + 1, pausePoint |-> pausePoint]}

\* a loop that starts each batch without asking checkTime
doScriptLoopUngated(id, i, fl, tm, h, d) ==
    IF i < Len(urlsToCheck)
    THEN /\ flows' = fl \cup {launching(id, i, 0, <<>>)}
         /\ started' = Append(started, <<i, 0>>)
         /\ timers' = tm
         /\ UNCHANGED <<intervals, finished>>
    ELSE /\ finished' = TRUE
         /\ flows' = fl
         /\ timers' = tm
         /\ UNCHANGED <<intervals, started>>

\* a loop without the break after pauseScript: it goes on to the indices
\* that follow, pauses at each of them in the same turn, and ends
doScriptLoopNoBreak(id, i, fl, tm, h, d) ==
    IF i < Len(urlsToCheck)
    THEN IF checkTime(h, d)
         THEN /\ flows' = fl \cup {launching(id, i, 0, <<>>)}
              /\ started' = Append(started, <<i, 0>>)
              /\ timers' = tm
              /\ UNCHANGED <<intervals, finished>>
         ELSE /\ timers' = tm \cup
                    {[id |-> intervals + 1 + (k - i), pausePoint |-> k] :
                        k \in i..(Len(urlsToCheck) - 1)}
              /\ intervals' = intervals + (Len(urlsToCheck) - i)
              /\ flows' = fl
              /\ finished' = TRUE
              /\ UNCHANGED started
    ELSE /\ finished' = TRUE
         /\ flows' = fl
         /\ timers' = tm
         /\ UNCHANGED <<intervals, started>>

\* a loop that does not await multipleTimes: it starts the batch of every
\* index that is left in the same turn, and ends
doScriptLoopNoAwait(id, i, fl, tm, h, d) ==
    IF i < Len(urlsToCheck)
    THEN IF checkTime(h, d)
         THEN /\ flows' = fl \cup
                    {launching(id, k, 0, <<>>) : k \in i..(Len(urlsToCheck) - 1)}
              /\ started' = started \o
                    [k \in 1..(Len(urlsToCheck) - i) |-> <<i + k - 1, 0>>]
              /\ timers' = tm
              /\ finished' = TRUE
              /\ UNCHANGED intervals
         ELSE /\ timers' = pauseScript(tm, i)
              /\ intervals' = intervals + 1
              /\ flows' = fl
              /\ UNCHANGED <<started, finished>>
    ELSE /\ finished' = TRUE
         /\ flows' = fl
         /\ timers' = tm
         /\ UNCHANGED <<intervals, started>>

\* doScript's loop from index i up to its first await, its break or its end;
\* fl and tm are the other flows and the timers left set, (h, d) is what
\* the clock reads at checkTime()
doScriptLoop(id, i, fl, tm, h, d) ==
    IF i < Len(urlsToCheck)
    THEN IF checkTime(h, d)
         THEN /\ flows' = fl \cup {launching(id, i, 0, <<>>)}
              /\ started' = Append(started, <<i, 0>>)
              /\ timers' = tm
              /\ UNCHANGED <<intervals, finished>>
         ELSE /\ timers' = pauseScript(tm, i)
              /\ intervals' = intervals + 1
              /\ flows' = fl
              /\ UNCHANGED <<started, finished>>
    ELSE /\ finished' = TRUE
         /\ flows' = fl
         /\ timers' = tm
         /\ UNCHANGED <<intervals, started>>

\* ---------------------------------------------------------------- Init

Init ==
    /\ \E n \in 0..MaxUrls : urlsToCheck = Prefix(UrlPool, n)
    /\ storeLogs \in BOOLEAN
    /\ rejectionMode \in {"warn", "throw"}
    /\ \E c \in ClockSamples : hour = c[1] /\ weekday = c[2]
    /\ calls = 0
    /\ flows = {}
    /\ intervals = 0
    /\ timers = {}
    /\ finished = FALSE
    /\ browsers = 0
    /\ started = <<>>
    /\ outcomes = [k \in 1..Len(urlsToCheck) |-> [resolved |-> 0, rejected |-> 0]]
    /\ processed = 0
    /\ sink = EmptyBag
    /\ pending = {}
    /\ uncaught = None

\* -------------------------------------------------------------- actions

\* the commander action: doScript(0, cmd)
Main ==
    /\ alive
    /\ calls = 0
    /\ calls' = 1
    /\ doScriptLoop(1, 0, flows, timers, hour, weekday)
    /\ UNCHANGED <<envVars, clockVars, browsers, outcomes, processed, sink,
                   pending, uncaught>>

\* chromeLauncher.launch resolves; lighthouse(...) is called
LaunchResolved(f) ==
    /\ alive
    /\ f \in flows
    /\ f.pc = "launch"
    /\ browsers' = browsers + 1
    /\ flows' = (flows \ {f}) \cup {[f EXCEPT !.pc = "audit"]}
    /\ UNCHANGED <<envVars, clockVars, calls, intervals, timers, finished,
                   started, outcomes, processed, sink, pending, uncaught>>

\* lighthouse resolves with results: addToLogs(PARTIAL), then saveAssets when
\* storeLogs is set, chrome.kill otherwise
AuditResolved(f, results) ==
    /\ alive
    /\ f \in flows
    /\ f.pc = "audit"
    /\ CanWrite
    /\ outcomes' = settled(f.i, TRUE)
    /\ LET report == condenseReport(results) IN
        /\ writeRecords(addToLogsRecord(<<report>>, UrlAt(f.i), PARTIAL))
        /\ flows' = (flows \ {f}) \cup
                {[f EXCEPT !.pc = IF storeLogs THEN "save" ELSE "kill",
                           !.result = report]}
    /\ UNCHANGED <<envVars, clockVars, calls, intervals, timers, finished,
                   browsers, started, processed, uncaught>>

\* lighthouse resolves with the results the audits of the URL always give
AuditSucceeded(f) == AuditResolved(f, SteadyResult(f.i))

\* lighthouse rejects: the catch logs the error and results is undefined;
\* logError(url), then chrome.kill
AuditFailed(f) ==
    /\ alive
    /\ f \in flows
    /\ f.pc = "audit"
    /\ CanWrite
    /\ outcomes' = settled(f.i, FALSE)
    /\ writeRecords(logErrorRecord(UrlAt(f.i)))
    /\ flows' = (flows \ {f}) \cup {[f EXCEPT !.pc = "kill", !.result = Null]}
    /\ UNCHANGED <<envVars, clockVars, calls, intervals, timers, finished,
                   browsers, started, processed, uncaught>>

\* assetSaver.saveAssets resolves: chrome.kill
SaveResolved(f) ==
    /\ alive
    /\ f \in flows
    /\ f.pc = "save"
    /\ flows' = (flows \ {f}) \cup {[f EXCEPT !.pc = "kill"]}
    /\ UNCHANGED <<envVars, clockVars, calls, intervals, timers, finished,
                   browsers, started, outcomes, processed, sink, pending,
                   uncaught>>

\* assetSaver.saveAssets rejects: runLighthouse, multipleTimes and doScript
\* reject in turn, and nothing handles doScript's promise
SaveRejected(f) ==
    /\ alive
    /\ f \in flows
    /\ f.pc = "save"
    /\ flows' = flows \ {f}
    /\ unhandledRejection(SaveError)
    /\ UNCHANGED <<envVars, clockVars, calls, intervals, timers, finished,
                   browsers, started, outcomes, processed, sink, pending>>

\* a batch that tries a failed attempt again: j moves on only when the
\* audit gave results
KillResolvedRetry(f) ==
    /\ alive
    /\ f \in flows
    /\ f.pc = "kill"
    /\ browsers' = browsers - 1
    /\ LET multipleResults == pushResult(f.multipleResults, f.result)
           j == IF f.result # Null THEN f.j + 1 ELSE f.j
       IN
        IF j < Attempts
        THEN /\ flows' = (flows \ {f}) \cup
                    {launching(f.id, f.i, j, multipleResults)}
             /\ started' = Append(started, <<f.i, j>>)
             /\ UNCHANGED <<intervals, timers, finished, processed, sink,
                            pending>>
        ELSE /\ CanWrite
             /\ writeRecords(
                    addToLogsRecord(<<gmeanOf(multipleResults)>>,
                                    UrlAt(f.i), GMEAN))
             /\ processed' = processed + 1
             /\ doScriptLoop(f.id, f.i + 1, flows \ {f}, timers, hour,
                             weekday)
    /\ UNCHANGED <<envVars, clockVars, calls, outcomes, uncaught>>

\* chrome.kill resolves and runLighthouse returns: the next attempt of the
\* batch, or after the last one the GMEAN record and the next turn of
\* doScript's loop
KillResolved(f) ==
    /\ alive
    /\ f \in flows
    /\ f.pc = "kill"
    /\ browsers' = browsers - 1
    /\ LET multipleResults == pushResult(f.multipleResults, f.result) IN
        IF f.j + 1 < Attempts
        THEN /\ flows' = (flows \ {f}) \cup
                    {launching(f.id, f.i, f.j + 1, multipleResults)}
             /\ started' = Append(started, <<f.i, f.j + 1>>)
             /\ UNCHANGED <<intervals, timers, finished, processed, sink,
                            pending>>
        ELSE /\ IF Len(multipleResults) > 0
                THEN /\ CanWrite
                     /\ writeRecords(
                            addToLogsRecord(<<gmeanOf(multipleResults)>>,
                                            UrlAt(f.i), GMEAN))
                ELSE UNCHANGED <<sink, pending>>
             /\ processed' = processed + 1
             /\ doScriptLoop(f.id, f.i + 1, flows \ {f}, timers, hour,
                             weekday)
    /\ UNCHANGED <<envVars, clockVars, calls, outcomes, uncaught>>

\* a tick of the timer pauseScript set.  The callback asks checkTime(), and
\* when it allows execution clears the timer and calls doScript, which asks
\* checkTime() again: c is what the clock reads by then.  A run resumed as
\* the window closes pauses again at once, at most MaxCalls times over.
IntervalCallback(t, c) ==
    /\ alive
    /\ t \in timers
    /\ IF checkTime(hour, weekday)
       THEN /\ checkTime(c[1], c[2]) \/ calls < MaxCalls
            /\ hour' = c[1]
            /\ weekday' = c[2]
            /\ calls' = calls + 1
            /\ doScriptLoop(calls + 1, t.pausePoint, flows,
                            clearInterval(timers, t), c[1], c[2])
            /\ UNCHANGED <<envVars, browsers, outcomes, processed, sink,
                           pending, uncaught>>
       ELSE UNCHANGED vars

\* a writeRecords promise resolves; logError's then-callback reads r, which
\* is not defined there, so logError's promise rejects with a ReferenceError
WriteResolved(w) ==
    /\ alive
    /\ w \in pending
    /\ pending' = pending \ {w}
    /\ IF w.record.type = ErrorType
       THEN unhandledRejection(ReferenceError)
       ELSE UNCHANGED uncaught
    /\ UNCHANGED <<envVars, clockVars, calls, flows, intervals, timers,
                   finished, browsers, started, outcomes, processed, sink>>

\* a writeRecords promise rejects: addToLogs and logError are not awaited
\* and have no catch
WriteRejected(w) ==
    /\ alive
    /\ w \in pending
    /\ pending' = pending \ {w}
    /\ unhandledRejection(WriteError)
    /\ UNCHANGED <<envVars, clockVars, calls, flows, intervals, timers,
                   finished, browsers, started, outcomes, processed, sink>>

\* the wall clock moves on while the program waits
ClockAdvance ==
    /\ alive
    /\ flows # {} \/ timers # {}
    /\ \E c \in ClockSamples :
        /\ c # <<hour, weekday>>
        /\ hour' = c[1]
        /\ weekday' = c[2]
    /\ UNCHANGED <<envVars, calls, flows, intervals, timers, finished,
                   browsers, started, outcomes, processed, sink, pending,
                   uncaught>>

Next ==
    \/ Main
    \/ \E f \in flows : LaunchResolved(f)
    \/ \E f \in flows : AuditSucceeded(f)
    \/ \E f \in flows : AuditFailed(f)
    \/ \E f \in flows : SaveResolved(f)
    \/ \E f \in flows : SaveRejected(f)
    \/ \E f \in flows : KillResolved(f)
    \/ \E t \in timers : \E c \in SecondReading(hour, weekday) :
            IntervalCallback(t, c)
    \/ \E w \in pending : WriteResolved(w)
    \/ \E w \in pending : WriteRejected(w)
    \/ ClockAdvance

Spec == Init /\ [][Next]_vars

\* every promise settles, and a timer whose tick can resume again and again
\* does resume
FairSpec ==
    /\ Spec
    /\ WF_vars(Main)
    /\ WF_vars(\E f \in flows : LaunchResolved(f))
    /\ WF_vars(\E f \in flows : AuditSucceeded(f) \/ AuditFailed(f))
    /\ WF_vars(\E f \in flows : SaveResolved(f) \/ SaveRejected(f))
    /\ WF_vars(\E f \in flows : KillResolved(f))
    /\ WF_vars(\E w \in pending : WriteResolved(w) \/ WriteRejected(w))
    /\ SF_vars(\E t \in timers : \E c \in SecondReading(hour, weekday) :
                    IntervalCallback(t, c))

\* ------------------------------------------------- what the claims speak of

\* ------------------------------------- the gate, over the whole clock face

\* parseInt(date.format("H")) and date.weekday() of checkTime
Hours == 0..23
Weekdays == 0..6

\* the program is started at any hour of any day of the week
TimeInit ==
    /\ urlsToCheck = Prefix(UrlPool, 1)
    /\ storeLogs = FALSE
    /\ rejectionMode = "warn"
    /\ hour \in Hours
    /\ weekday \in Weekdays
    /\ calls = 0
    /\ flows = {}
    /\ intervals = 0
    /\ timers = {}
    /\ finished = FALSE
    /\ browsers = 0
    /\ started = <<>>
    /\ outcomes = [k \in 1..Len(urlsToCheck) |-> [resolved |-> 0, rejected |-> 0]]
    /\ processed = 0
    /\ sink = EmptyBag
    /\ pending = {}
    /\ uncaught = None

\* an hour passes while the run is suspended
TimeTick ==
    /\ alive
    /\ timers # {}
    /\ hour' = HourLater(hour, weekday)[1]
    /\ weekday' = HourLater(hour, weekday)[2]
    /\ UNCHANGED <<envVars, calls, flows, intervals, timers, finished,
                   browsers, started, outcomes, processed, sink, pending,
                   uncaught>>

\* the program start and the ticks of the re-check timer: the two places
\* checkTime is called from
TimeNext ==
    \/ Main
    \/ \E t \in timers :
        \E c \in SecondReading(hour, weekday) : IntervalCallback(t, c)
    \/ TimeTick

TimeSpec == TimeInit /\ [][TimeNext]_vars

\* ------------------------------------------ the batches, over the samples

\* two URLs, audited within the window on a runtime that only warns; the
\* audits that succeed resolve with any of LighthouseResults
AggInit ==
    /\ urlsToCheck = Prefix(UrlPool, 2)
    /\ storeLogs = FALSE
    /\ rejectionMode = "warn"
    /\ hour = 12
    /\ weekday = 3
    /\ calls = 0
    /\ flows = {}
    /\ intervals = 0
    /\ timers = {}
    /\ finished = FALSE
    /\ browsers = 0
    /\ started = <<>>
    /\ outcomes = [k \in 1..Len(urlsToCheck) |-> [resolved |-> 0, rejected |-> 0]]
    /\ processed = 0
    /\ sink = EmptyBag
    /\ pending = {}
    /\ uncaught = None

AggNext ==
    \/ Main
    \/ \E f \in flows : LaunchResolved(f)
    \/ \E f \in flows : \E results \in LighthouseResults :
            AuditResolved(f, results)
    \/ \E f \in flows : AuditFailed(f)
    \/ \E f \in flows : KillResolved(f)
    \/ \E w \in pending : WriteResolved(w)

AggSpec == AggInit /\ [][AggNext]_vars

\* the indices of urlsToCheck, counted from 0
Idx == 0..(Len(urlsToCheck) - 1)

RECURSIVE SumCopies(_)
SumCopies(S) ==
    IF S = {} THEN 0
    ELSE LET r == CHOOSE x \in S : TRUE
         IN CopiesIn(r, sink) + SumCopies(S \ {r})

\* how many records of the given type the writer was handed for URL i
Requested(i, type) ==
    SumCopies({r \in BagToSet(sink) : r.site = UrlAt(i) /\ r.type = type})

\* how many audits of URL i resolved with results, and how many rejected
Resolved(i) == outcomes[i + 1].resolved
Rejected(i) == outcomes[i + 1].rejected

\* multipleTimes has returned for URL i
Processed(i) == i < processed

\* the time window is open at the present clock reading
WindowOpen == checkTime(hour, weekday)

\* the Scheduler's state Done
Done ==
    /\ finished
    /\ processed = Len(urlsToCheck)
    /\ flows = {}
    /\ timers = {}

\* nothing of the run loop is left to happen
Stopped == ~alive \/ (calls > 0 /\ flows = {} /\ timers = {})

\* --------------------------------------------------------------- claims

\* C1: the attempts are started in list order, three per index and each
\* index once: the k-th attempt started is attempt (k-1) mod 3 of index
\* (k-1) div 3.  A pending re-check timer holds the index of the first URL
\* that is not processed, no attempt of which has been started, and a running
\* batch is the batch of that index; when the loop has run past the last URL
\* every index has had its batch.
C1_InOrderExactlyOnce ==
    /\ \A k \in 1..Len(started) :
        started[k] = <<(k - 1) \div Attempts, (k - 1) % Attempts>>
    /\ \A t \in timers :
        /\ t.pausePoint = processed
        /\ Len(started) = Attempts * t.pausePoint
    /\ \A f \in flows : f.i = processed
    /\ finished => Len(started) = Attempts * Len(urlsToCheck)

\* two suspensions, both resumed, and the list of two URLs run to its end
C1_Witness ==
    /\ finished
    /\ calls = 3
    /\ intervals = 2
    /\ Len(urlsToCheck) = 2
    /\ Len(started) = Attempts * 2

\* C2 (as stated): a URL whose 3 audits all failed has exactly one error
\* record, no PARTIAL record and no GMEAN record handed to the writer.
C2_OneErrorRecord ==
    \A i \in Idx :
        Rejected(i) = Attempts =>
            /\ Requested(i, ErrorType) = 1
            /\ Requested(i, PARTIAL) = 0
            /\ Requested(i, GMEAN) = 0

\* C3 (as stated): a processed URL with at least one successful audit has no
\* error record.
C3_ErrorOnlyIfNoneSucceeded ==
    \A i \in Idx :
        (Processed(i) /\ Resolved(i) >= 1) => Requested(i, ErrorType) = 0

\* C4: for every URL the number of PARTIAL records handed to the writer is
\* the number of its audits that succeeded, and once the URL is processed
\* the number of GMEAN records is 1 if an audit succeeded and 0 if none did.
C4_PartialAndGmeanCounts ==
    \A i \in Idx :
        /\ Requested(i, PARTIAL) = Resolved(i)
        /\ Processed(i) =>
            Requested(i, GMEAN) = IF Resolved(i) > 0 THEN 1 ELSE 0

\* one processed URL with two successes and a GMEAN record, another with no
\* success and no GMEAN record
C4_Witness ==
    \E i, k \in Idx :
        /\ Processed(i) /\ Resolved(i) = 2 /\ Requested(i, PARTIAL) = 2
        /\ Requested(i, GMEAN) = 1
        /\ Processed(k) /\ Resolved(k) = 0 /\ Requested(k, GMEAN) = 0

\* C5 (as stated): every attempt, whichever of the 3 it is, starts at a
\* moment at which checkTime allows execution.
C5_EveryAttemptGated ==
    [][Len(started') > Len(started) => WindowOpen]_vars

\* C5 (amended): the first attempt of every batch starts at a moment at which
\* checkTime allows execution.
C5_FirstAttemptGated ==
    [][(/\ Len(started') > Len(started)
        /\ \E k \in (Len(started) + 1)..Len(started') : started'[k][2] = 0)
       => WindowOpen]_vars

\* the window has closed during the batch a resumed run started, and the
\* batch has gone on to a later attempt
C5_Witness ==
    \E f \in flows :
        /\ f.id > 1
        /\ f.j > 0
        /\ f.pc = "launch"
        /\ ~WindowOpen

\* C6: a turn of doScript's loop that finds the window closed at an index
\* starts no attempt and sets a timer holding that index; while a timer is
\* pending no flow is running and no attempt of the timer's index has been
\* started, and a step that leaves a timer pending starts no attempt and
\* hands no record to the writer.
C6_SuspendedIdle ==
    /\ [](timers # {} =>
            /\ flows = {}
            /\ \A t \in timers : \A k \in 1..Len(started) :
                    started[k][1] # t.pausePoint)
    /\ [][(timers # {} /\ timers' # {}) =>
            (started' = started /\ sink' = sink)]_vars
    /\ [][(/\ calls' # calls \/ processed' # processed
           /\ processed' < Len(urlsToCheck)
           /\ ~WindowOpen')
          => (/\ started' = started
              /\ flows' = {}
              /\ \E t \in timers' : t \notin timers /\ t.pausePoint = processed')
         ]_vars

\* suspended before the second URL, the records of the first one handed over
C6_Witness ==
    /\ \E t \in timers : t.pausePoint = 1
    /\ Len(started) = Attempts
    /\ BagCardinality(sink) >= Attempts

\* C7: at most one timer is pending, none while a flow is running, and it is
\* the one set last; each pause sets one timer, and no timer is pending
\* beside it; a tick resumes only when the window is open, and then its timer
\* is no longer set and doScript is called once, so that the calls of
\* doScript are the first one and one for every timer that was cleared.  The
\* only timer left set by a resuming tick is the new one of a run that found
\* the window closed again and started nothing.
C7_OneTimer ==
    /\ [](/\ Cardinality(timers) <= 1
          /\ timers # {} => flows = {}
          /\ \A t \in timers : t.id = intervals
          /\ calls > 0 => calls = 1 + intervals - Cardinality(timers))
    /\ [][intervals' # intervals =>
            /\ intervals' = intervals + 1
            /\ timers \cap timers' = {}
            /\ Cardinality(timers') = 1
            /\ timers = {} \/ calls' = calls + 1]_vars
    /\ [][(calls > 0 /\ calls' # calls) =>
            /\ WindowOpen
            /\ calls' = calls + 1
            /\ Cardinality(timers) = 1
            /\ timers \cap timers' = {}
            /\ \/ timers' = {}
               \/ /\ ~WindowOpen'
                  /\ intervals' = intervals + 1
                  /\ flows' = {}
                  /\ started' = started]_vars

\* two pauses, each resumed, and the second resumed run is auditing
C7_Witness ==
    /\ calls = 3
    /\ intervals = 2
    /\ timers = {}
    /\ \E f \in flows : f.id = 3 /\ f.pc = "audit"

\* C8: at most one flow is active, and it is in the attempt started last,
\* which is an attempt of the first URL not processed; every attempt started
\* before it has settled; no flow runs while a timer is pending.
C8_OneAtATime ==
    /\ Cardinality(flows) <= 1
    /\ \A f \in flows :
        /\ f.i = processed
        /\ Len(started) = Attempts * f.i + f.j + 1
        /\ started[Len(started)] = <<f.i, f.j>>
        /\ \A i \in Idx :
            Resolved(i) + Rejected(i) =
                IF i < f.i THEN Attempts
                ELSE IF i > f.i THEN 0
                ELSE IF f.pc \in {"launch", "audit"} THEN f.j ELSE f.j + 1
    /\ timers # {} => flows = {}

\* a resumed run is in the last attempt of the second URL
C8_Witness ==
    \E f \in flows : f.id > 1 /\ f.i = 1 /\ f.j = 2 /\ f.pc = "audit"

\* C9 (as stated, for a run in which no write and no saveAssets fails): when
\* nothing of the run loop is left to happen, the Scheduler is at Done.
C9_StopsOnlyAtDone ==
    (Stopped /\ ~storeLogs /\ uncaught \in {None, ReferenceError}) => Done

\* C10 (as stated): a failed attempt raises no unhandled error that ends the
\* process.
C10_FailureNotFatal ==
    uncaught # ReferenceError

\* C11 (as stated): a rejected write does not halt the scheduling: when a
\* rejected writeRecords promise has ended the process, every URL has been
\* processed and the loop has run past the last of them.
C11_WriteFailureDoesNotHalt ==
    uncaught = WriteError => Done

\* how many attempts of URL i have been started
AttemptsStarted(i) ==
    Cardinality({k \in 1..Len(started) : started[k][1] = i})

\* C12: no URL is given more than 3 attempts, and a URL whose batch has
\* returned has been given exactly 3, each of which has settled, whatever
\* the number of them that failed.
C12_ExactlyThreeAttempts ==
    \A i \in Idx :
        /\ AttemptsStarted(i) <= 3
        /\ Processed(i) =>
            /\ AttemptsStarted(i) = 3
            /\ Resolved(i) + Rejected(i) = 3

\* the batches of two URLs have returned, all three audits of the first
\* failed and of the second one failed and two succeeded
C12_Witness ==
    /\ Len(urlsToCheck) = 2
    /\ Processed(0) /\ Processed(1)
    /\ Rejected(0) = 3
    /\ Rejected(1) = 1 /\ Resolved(1) = 2

\* C13 (as stated): a URL whose batch has returned has been given 5 audits.
C13_FiveAudits ==
    \A i \in Idx : Processed(i) => AttemptsStarted(i) = 5

\* the hours and days the time-window policy allows
InRunWindow(h, d) == h \in 9..18 /\ d \notin {0, 6}

\* C14: at every hour 0..23 of every weekday 0..6, doScript starts the batch
\* when the hour is one of 9..18 and the day is none of 0 and 6, and calls
\* pauseScript otherwise; a tick of the timer calls doScript only at such
\* an hour of such a day, and the run it resumes starts the batch when the
\* clock, read again, still shows such an hour of such a day.
C14_CheckTimeWindow ==
    /\ [](hour \in Hours /\ weekday \in Weekdays)
    /\ [][calls = 0 /\ calls' = 1 =>
            /\ flows' # {} <=> InRunWindow(hour, weekday)
            /\ timers' # {} <=> ~InRunWindow(hour, weekday)]_vars
    /\ [][timers # {} /\ timers' = {} =>
            /\ InRunWindow(hour, weekday)
            /\ flows' # {}]_vars
    /\ [][calls > 0 /\ calls' # calls =>
            /\ InRunWindow(hour, weekday)
            /\ flows' # {} <=> InRunWindow(hour', weekday')
            /\ timers' # {} <=> ~InRunWindow(hour', weekday')]_vars

\* a run suspended on a Sunday is resumed on the Monday at 9h
C14_Witness ==
    /\ hour = 9 /\ weekday = 1
    /\ intervals = 1 /\ timers = {}
    /\ \E f \in flows : f.id = 2 /\ f.i = 0

\* the fields of a sample
ReportFields == {"performanceScore", "totalByteWeight"}

\* the records of the given type handed to the writer for URL i
RecordsOf(i, type) ==
    {r \in BagToSet(sink) : r.site = UrlAt(i) /\ r.type = type}

\* the product of the values of a field over the records of S, each taken
\* as many times as it was handed to the writer
RECURSIVE FieldProduct(_, _)
FieldProduct(S, field) ==
    IF S = {} THEN 1
    ELSE LET r == CHOOSE x \in S : TRUE
         IN (r.data[1][field] ^ CopiesIn(r, sink))
                * FieldProduct(S \ {r}, field)

\* g is the n-th root of P, in whole units
IsGeometricMean(g, P, n) ==
    n > 0 /\ g ^ n <= P /\ P < (g + 1) ^ n

\* C15: every field of the GMEAN record of a URL is the geometric mean of
\* the values of that same field in the PARTIAL records of the URL, whatever
\* the values of the other field and the order the samples came in.
C15_GmeanPerField ==
    \A i \in Idx : \A g \in RecordsOf(i, GMEAN) :
        /\ DOMAIN g.data[1] = ReportFields
        /\ \A field \in ReportFields :
            IsGeometricMean(g.data[1][field],
                            FieldProduct(RecordsOf(i, PARTIAL), field),
                            Requested(i, PARTIAL))

\* the aggregate of three samples the two fields of which differ: scores 1,
\* 1 and 16 in some order, weights 1, 16 and 16 in some order
C15_Witness ==
    \E g \in RecordsOf(0, GMEAN) :
        /\ Requested(0, PARTIAL) = 3
        /\ g.data[1].performanceScore = 2
        /\ g.data[1].totalByteWeight = 6

\* C16: the aggregate of a processed URL is taken over as many samples as
\* audits of that URL succeeded, the samples of that URL and no others; when
\* one audit succeeded it is that sample, field for field.
C16_OwnSuccessfulSamples ==
    \A i \in Idx :
        Processed(i) /\ Resolved(i) > 0 =>
            /\ RecordsOf(i, GMEAN) # {}
            /\ \A g \in RecordsOf(i, GMEAN) :
                /\ \A field \in ReportFields :
                    IsGeometricMean(g.data[1][field],
                                    FieldProduct(RecordsOf(i, PARTIAL), field),
                                    Resolved(i))
                /\ Resolved(i) = 1 =>
                    \A p \in RecordsOf(i, PARTIAL) : g.data = p.data

\* one audit of the first URL succeeded and two failed, the three of the
\* second URL succeeded with other values
C16_Witness ==
    /\ Processed(1)
    /\ Resolved(0) = 1 /\ Rejected(0) = 2 /\ Resolved(1) = 3
    /\ \E g \in RecordsOf(0, GMEAN) :
        g.data[1] = [performanceScore |-> 16, totalByteWeight |-> 1]
    /\ \E g \in RecordsOf(1, GMEAN) :
        g.data[1] = [performanceScore |-> 2, totalByteWeight |-> 16]

\* C17 (as stated): the writes settle in the order they were issued: when
\* the write of a record is done, no write issued before it for an earlier
\* URL is still unsettled, and when it is the GMEAN record of a URL, none
\* of a PARTIAL record of that URL.
C17_WritesSettleInIssueOrder ==
    [][alive' =>
        \A w \in pending \ pending' : \A v \in pending :
            v.seq < w.seq =>
                /\ v.record.site = w.record.site
                /\ ~(v.record.type = PARTIAL /\ w.record.type = GMEAN)]_vars

\* C18 (as stated): no browser is alive when no attempt is in progress:
\* between the attempts, while the run is suspended and at Done.
C18_BrowserKilled ==
    flows = {} => browsers = 0

====
